---------------------------- MODULE Spec2Model ----------------------------
(***************************************************************************)
(* A model of tcod.context (Context, new_window, new_terminal) and of     *)
(* tcod.libtcod._PropagateException.                                      *)
(*                                                                        *)
(* The Context class is a thin owner of one handle of the display         *)
(* subsystem (libtcod).  The subsystem's own behaviour (placement of the  *)
(* console, pixel to tile conversion, status codes) is not part of the    *)
(* Python sources; it is modelled from the design document and kept in    *)
(* the record `lib`.  Everything the Python code does around it (the      *)
(* attribute `_context_p`, the order of evaluation, the status checks,    *)
(* the arithmetic of convert_event and recommended_console_size) is       *)
(* translated from the sources.                                           *)
(***************************************************************************)
EXTENDS Integers, Sequences, FiniteSets, TLC

VARIABLES
    self,         \* the Context objects: does each exist, has it _context_p
    lib,          \* the display subsystem's state
    result,       \* what the last call returned or raised
    scope,        \* where a `with context:` statement stands
    close_calls,  \* number of calls of close made so far on each object
    pm            \* a _PropagateException manager and its with-statements

vars == <<self, lib, result, scope, close_calls, pm>>

-----------------------------------------------------------------------------
(* Bounds of the exploration.                                              *)

MaxClose == 2
MaxDepth == 2
MaxPropagate == 3

-----------------------------------------------------------------------------
(* Rational numbers as normalised pairs <<n, d>>, d > 0: the subsystem     *)
(* scales with fractions (a scale of 2.7 is <<27, 10>>).                   *)

Abs(i) == IF i < 0 THEN -i ELSE i

RECURSIVE Gcd(_, _)
Gcd(a, b) == IF b = 0 THEN a ELSE Gcd(b, a % b)

Rat(n, d) ==
    LET g == Gcd(Abs(n), d)
    IN  IF n = 0 THEN <<0, 1>> ELSE <<n \div g, d \div g>>

RInt(i) == <<i, 1>>
RLeq(a, b) == a[1] * b[2] <= b[1] * a[2]
RMin(a, b) == IF RLeq(a, b) THEN a ELSE b
RFloor(a) == a[1] \div a[2]
RMulI(a, i) == Rat(a[1] * i, a[2])
RSub(a, b) == Rat(a[1] * b[2] - b[1] * a[2], a[2] * b[2])
RMul(a, b) == Rat(a[1] * b[1], a[2] * b[2])

RDiv(a, b) == Rat(a[1] * b[2], a[2] * b[1])

-----------------------------------------------------------------------------
(* ViewportPolicy: where the subsystem places a console on the surface,    *)
(* as the design document describes it; the library that computes it is    *)
(* not part of the Python sources.  The options record is the one          *)
(* Context.present builds.                                                 *)

\* Step 1: one scale for both axes under keep_aspect, else one per axis.
base_scale(console, surface, options) ==
    LET sx == Rat(surface[1], console[1])
        sy == Rat(surface[2], console[2])
    IN  IF options.keep_aspect THEN <<RMin(sx, sy), RMin(sx, sy)>> ELSE <<sx, sy>>

\* Step 2: under integer_scaling the scale is floored to an integer, and
\* is never below 1.
used_scale(console, surface, options) ==
    LET b == base_scale(console, surface, options)
        f(q) == IF RFloor(q) >= 1 THEN RInt(RFloor(q)) ELSE RInt(1)
    IN  IF options.integer_scaling THEN <<f(b[1]), f(b[2])>> ELSE b

\* Step 3: size = console_size x scale, position = align * (surface - size).
compute_rect(console, surface, options) ==
    LET sc == used_scale(console, surface, options)
        w  == RMulI(sc[1], console[1])
        h  == RMulI(sc[2], console[2])
    IN  [ x |-> RMul(options.align_x, RSub(RInt(surface[1]), w)),
          y |-> RMul(options.align_y, RSub(RInt(surface[2]), h)),
          w |-> w, h |-> h, scale |-> sc ]

-----------------------------------------------------------------------------
(* CoordinateTransform: the mapping the subsystem keeps after a present.   *)

NoTransform == [ set |-> FALSE, rect |-> <<>> ]

TransformOf(rect) == [ set |-> TRUE, rect |-> rect ]

\* The unfloored quotient (pixel - rect.origin) / rect.cell_size, per axis.
subtile_of(tr, x, y) ==
    << RDiv(RSub(RInt(x), tr.rect.x), tr.rect.scale[1]),
       RDiv(RSub(RInt(y), tr.rect.y), tr.rect.scale[2]) >>

\* tile = floor((pixel - rect.origin) / rect.cell_size)
tile_of(tr, x, y) ==
    << RFloor(subtile_of(tr, x, y)[1]), RFloor(subtile_of(tr, x, y)[2]) >>

-----------------------------------------------------------------------------
(* Inputs.                                                                 *)

Widths == {0, 27}                         \* width of new_window
Columns == {0, 2}                         \* columns of new_terminal
Rows == {2}                               \* rows of new_terminal
Heights == {-1, 20}                       \* height of new_window
Consoles == {<<10, 10>>, <<40, 25>>}      \* (columns, rows) of a console
Aligns == {<<<<1, 2>>, <<1, 2>>>>}         \* the default, (0.5, 0.5)
ClearColors == {<<0, 0, 0>>}
Pixels == {<<13, 7>>, <<26, 19>>}
Motions == {<<5, 0>>, <<-13, 7>>}
Tilesets == {"None", "tileset"}           \* Optional[Tileset]
Paths == {"None", "shot.png"}             \* Optional[str]
Minimums == {1, 3}                        \* min_columns, min_rows

\* Error kinds.  The Python exceptions behind them: UseAfterCloseError is
\* the AttributeError of reading the deleted attribute _context_p; the
\* others are raised by _check / _check_warn on a negative status.
NoError == "none"
UseAfterCloseError == "UseAfterCloseError"
ConstructionError == "ConstructionError"
PresentationError == "PresentationError"
ConversionError == "ConversionError"
IOError == "IOError"
SubsystemError == "SubsystemError"
SurfaceTypeError == "TypeError"
DanglingHandle == "undefined"

-----------------------------------------------------------------------------
(* The display subsystem, as far as Context uses it.                       *)

NULL == "NULL"

\* Cell size in pixels of a tileset handle; NULL is the built-in fallback.
CellSize(tileset_p) == IF tileset_p = NULL THEN <<10, 10>> ELSE <<8, 8>>

\* context_recommended_size: the grid that fits the window with the tileset.
lib_recommended_console_size(l) ==
    << l.window[1] \div CellSize(l.tileset)[1],
       l.window[2] \div CellSize(l.tileset)[2] >>

\* context_pixel_to_tile (int): fails while no transform is established.
lib_pixel_to_tile_i(l, x, y) ==
    IF l.transform.set
    THEN [status |-> 0, out |-> tile_of(l.transform, x, y)]
    ELSE [status |-> -1, out |-> <<x, y>>]

\* context_pixel_to_tile (float): the same with sub-cell precision; the
\* output is <<x numerator, x denominator, y numerator, y denominator>>.
lib_pixel_to_tile_d(l, x, y) ==
    IF l.transform.set
    THEN [status |-> 0,
          out |-> subtile_of(l.transform, x, y)[1] \o subtile_of(l.transform, x, y)[2]]
    ELSE [status |-> -1, out |-> <<x, 1, y, 1>>]

\* context_present, when it succeeds: the transform is recomputed.
lib_present(l, console, options) ==
    [l EXCEPT !.transform = TransformOf(compute_rect(console, l.window, options))]

\* create_window_context: a status for the requested pixel size.  A
\* non-positive size cannot be created; otherwise the subsystem may fail
\* (-1), succeed (0) or succeed with a warning (1, e.g. a fallback renderer).
lib_new_window_statuses(width, height) ==
    IF width > 0 /\ height > 0 THEN {-1, 0, 1} ELSE {-1}

\* create_terminal_context: the same for a requested grid size.
lib_new_terminal_statuses(columns, rows) ==
    IF columns > 0 /\ rows > 0 THEN {-1, 0, 1} ELSE {-1}

\* context_get_renderer_type: the renderer in use (2: TCOD_RENDERER_SDL,
\* 3: TCOD_RENDERER_SDL2), or a negative status.
RendererAnswers == {-1, 2, 3}

\* context_get_surface_handle: the window, or NULL for a context without one.
WindowAnswers == {NULL, "SDL_Window"}

\* _check / _check_warn: a negative status raises; a positive one only warns.
check_raises(status) == status < 0

LibInit ==
    [ handle |-> "none", window |-> <<0, 0>>, tileset |-> NULL,
      transform |-> NoTransform,
      \* for the properties: were there no, one or more successful presents
      presents |-> 0,
      create_args |-> <<>>,
      delete_calls |-> 0 ]

-----------------------------------------------------------------------------
(* tcod.context: the module constants and helpers.                         *)

RENDERER_SDL2 == "TCOD_RENDERER_SDL2"
SDL_WINDOW_RESIZABLE == "SDL_WINDOW_RESIZABLE"
Argv0 == "argv0"

\* _handle_tileset: the tileset's pointer, or NULL for None.
handle_tileset(tileset) == IF tileset # "None" THEN tileset ELSE NULL

\* _handle_title: the title, or the program's base name for None.
handle_title(title) == IF title = "None" THEN Argv0 ELSE title

-----------------------------------------------------------------------------
(* Context's methods as functions of the object s and the subsystem l.     *)
(* Each returns what the call raises (err) or returns (val), and whether   *)
(* a function of the subsystem was called with self._context_p (called).   *)
(* Reading self._context_p is the last thing evaluated before the call:    *)
(* when the attribute has been deleted it raises and nothing is called.    *)

Ret(val) == [err |-> NoError, val |-> val, called |-> TRUE]
Raise(e, called) == [err |-> e, val |-> <<>>, called |-> called]

\* A call made with self._context_p.  A released handle is a dangling
\* pointer inside the subsystem.
WithContextP(s, l, outcome) ==
    IF ~s.has_context_p THEN Raise(UseAfterCloseError, FALSE)
    ELSE IF l.handle # "live" THEN Raise(DanglingHandle, TRUE)
    ELSE outcome

pixel_to_tile(s, l, x, y) ==
    LET r == lib_pixel_to_tile_i(l, x, y)
    IN  WithContextP(s, l,
            IF check_raises(r.status) THEN Raise(ConversionError, TRUE)
            ELSE Ret(r.out))

pixel_to_subtile(s, l, x, y) ==
    LET r == lib_pixel_to_tile_d(l, x, y)
    IN  WithContextP(s, l,
            IF check_raises(r.status) THEN Raise(ConversionError, TRUE)
            ELSE Ret(r.out))

\* Events: MouseState has pixel and tile; MouseMotion adds pixel_motion and
\* tile_motion (<<>> stands for a field the type does not have).
NoField == <<>>
NoEvent == [type |-> "none", pixel |-> NoField, pixel_motion |-> NoField,
            tile |-> NoField, tile_motion |-> NoField]
StaleTiles == {<<0, 0>>}
Events ==
    [type : {"MouseState"}, pixel : Pixels, pixel_motion : {NoField},
     tile : StaleTiles, tile_motion : {NoField}]
    \cup
    [type : {"MouseMotion"}, pixel : Pixels, pixel_motion : Motions,
     tile : StaleTiles, tile_motion : {<<0, 0>>}]

\* convert_event taking the tile the event held before as the previous tile.
convert_event_cached(s, l, event) ==
    LET t == pixel_to_tile(s, l, event.pixel[1], event.pixel[2])
    IN  IF t.err # NoError THEN [err |-> t.err, ev |-> event, called |-> t.called]
        ELSE IF event.type # "MouseMotion"
        THEN [err |-> NoError, ev |-> [event EXCEPT !.tile = t.val], called |-> TRUE]
        ELSE [err |-> NoError,
              ev |-> [event EXCEPT !.tile = t.val,
                         !.tile_motion = <<t.val[1] - event.tile[1],
                                           t.val[2] - event.tile[2]>>],
              called |-> TRUE]

\* convert_event: event.tile first, then for a MouseMotion the tile of the
\* pixel before the motion and the difference.  The event is mutated in
\* place, so what was assigned before a failure stays assigned.
convert_event(s, l, event) ==
    LET t == pixel_to_tile(s, l, event.pixel[1], event.pixel[2])
        ev1 == [event EXCEPT !.tile = t.val]
        prev_tile == pixel_to_tile(s, l,
                         event.pixel[1] - event.pixel_motion[1],
                         event.pixel[2] - event.pixel_motion[2])
    IN  IF t.err # NoError THEN [err |-> t.err, ev |-> event, called |-> t.called]
        ELSE IF event.type # "MouseMotion"
        THEN [err |-> NoError, ev |-> ev1, called |-> TRUE]
        ELSE IF prev_tile.err # NoError
        THEN [err |-> prev_tile.err, ev |-> ev1, called |-> TRUE]
        ELSE [err |-> NoError,
              ev |-> [ev1 EXCEPT !.tile_motion =
                         <<ev1.tile[1] - prev_tile.val[1],
                           ev1.tile[2] - prev_tile.val[2]>>],
              called |-> TRUE]

\* The TCOD_ViewportOptions struct built by present.
ViewportOptions(keep_aspect, integer_scaling, clear_color, align) ==
    [ keep_aspect |-> keep_aspect,
      integer_scaling |-> integer_scaling,
      clear_color |-> <<clear_color[1], clear_color[2], clear_color[3], 255>>,
      align_x |-> align[1],
      align_y |-> align[2] ]

\* present, save_screenshot, change_tileset: _check of the subsystem's status.
checked_call(s, l, status, e) ==
    WithContextP(s, l, IF check_raises(status) THEN Raise(e, TRUE) ELSE Ret(<<>>))

Max(a, b) == IF a >= b THEN a ELSE b

\* recommended_console_size: max(min_columns, size[0]), max(min_rows, 1).
recommended_console_size(s, l, min_columns, min_rows, status) ==
    LET size == lib_recommended_console_size(l)
    IN  WithContextP(s, l,
            IF check_raises(status) THEN Raise(SubsystemError, TRUE)
            ELSE Ret(<<Max(min_columns, size[1]), Max(min_rows, 1)>>))

\* present: the options struct, then _check of context_present's status.
present(s, l, console, kw, status) ==
    LET options == ViewportOptions(kw.keep_aspect, kw.integer_scaling,
                                   kw.clear_color, kw.align)
        r == checked_call(s, l, status, PresentationError)
    IN  [ err |-> r.err, val |-> r.val, called |-> r.called,
          options |-> options,
          lib |-> IF r.err = NoError THEN lib_present(l, console, options) ELSE l ]

\* change_tileset: _check of context_change_tileset's status.
change_tileset(s, l, tileset, status) ==
    LET r == checked_call(s, l, status, SubsystemError)
    IN  [ err |-> r.err, val |-> r.val, called |-> r.called,
          lib |-> IF r.err = NoError
                  THEN [l EXCEPT !.tileset = handle_tileset(tileset)] ELSE l ]

\* save_screenshot: the encoded path or NULL, _check of the status.
save_screenshot(s, l, path, status) ==
    checked_call(s, l, status, IOError)

\* renderer_type: _check of the subsystem's answer, which is returned.
renderer_type(s, l, answer) ==
    WithContextP(s, l,
        IF check_raises(answer) THEN Raise(SubsystemError, TRUE)
        ELSE Ret(<<answer>>))

\* sdl_window_p: the subsystem's window pointer; TypeError when it is NULL.
sdl_window_p(s, l, p) ==
    WithContextP(s, l,
        IF p = NULL THEN Raise(SurfaceTypeError, TRUE) ELSE Ret(<<p>>))

\* ffi.release of the pointer made by ffi.gc(context_p, TCOD_context_delete):
\* the destructor runs now, and never again for this pointer.
ffi_release(l) ==
    IF l.handle = "live"
    THEN [l EXCEPT !.handle = "released", !.transform = NoTransform,
                   !.delete_calls = @ + 1]
    ELSE l

\* close without the hasattr test.
close_unguarded(s, l) ==
    IF s.has_context_p
    THEN [err |-> NoError, self |-> [s EXCEPT !.has_context_p = FALSE],
          lib |-> ffi_release(l)]
    ELSE [err |-> UseAfterCloseError, self |-> s, lib |-> l]

\* close without the del of the attribute.
close_keeps_attribute(s, l) ==
    IF s.has_context_p
    THEN [err |-> NoError, self |-> s, lib |-> ffi_release(l)]
    ELSE [err |-> NoError, self |-> s, lib |-> l]

\* close: release and delete the attribute, if the attribute is there.
close(s, l) ==
    IF s.has_context_p
    THEN [err |-> NoError, self |-> [s EXCEPT !.has_context_p = FALSE],
          lib |-> ffi_release(l)]
    ELSE [err |-> NoError, self |-> s, lib |-> l]

\* __exit__ that closes only when the body ended without an error.
exit_skips_on_error(s, l, exc) ==
    IF exc THEN [err |-> NoError, self |-> s, lib |-> l] ELSE close(s, l)

\* __exit__(*args): close, whatever the arguments; it returns None, so an
\* error of the body goes on propagating.
exit(s, l, exc) == close(s, l)

\* The keyword arguments of new_window, at their defaults.
DefaultKeywords ==
    [ renderer |-> "None", tileset |-> "None", vsync |-> TRUE,
      sdl_window_flags |-> "None", title |-> "None" ]

\* new_window that rejects a non-positive size before calling the subsystem.
new_window_validating(l, width, height, kw, status) ==
    LET args == << width, height,
                   IF kw.renderer = "None" THEN RENDERER_SDL2 ELSE kw.renderer,
                   handle_tileset(kw.tileset), kw.vsync,
                   IF kw.sdl_window_flags = "None" THEN SDL_WINDOW_RESIZABLE
                                                   ELSE kw.sdl_window_flags,
                   handle_title(kw.title) >>
        called == [l EXCEPT !.create_args = args]
    IN  IF width <= 0 \/ height <= 0
        THEN [err |-> ConstructionError, made |-> FALSE, called |-> FALSE, lib |-> l]
        ELSE IF check_raises(status)
        THEN [err |-> ConstructionError, made |-> FALSE, called |-> TRUE, lib |-> called]
        ELSE [err |-> NoError, made |-> TRUE, called |-> TRUE,
              lib |-> [called EXCEPT !.handle = "live",
                                     !.window = <<width, height>>,
                                     !.tileset = handle_tileset(kw.tileset)]]

\* new_window: the defaults, the subsystem's create_window_context with the
\* arguments, _check_warn of its status, Context._claim of the handle.
new_window(l, width, height, kw, status) ==
    LET args == << width, height,
                   IF kw.renderer = "None" THEN RENDERER_SDL2 ELSE kw.renderer,
                   handle_tileset(kw.tileset), kw.vsync,
                   IF kw.sdl_window_flags = "None" THEN SDL_WINDOW_RESIZABLE
                                                   ELSE kw.sdl_window_flags,
                   handle_title(kw.title) >>
        called == [l EXCEPT !.create_args = args]
    IN  IF check_raises(status)
        THEN [err |-> ConstructionError, made |-> FALSE, called |-> TRUE, lib |-> called]
        ELSE [err |-> NoError, made |-> TRUE, called |-> TRUE,
              lib |-> [called EXCEPT !.handle = "live",
                                     !.window = <<width, height>>,
                                     !.tileset = handle_tileset(kw.tileset)]]

\* new_terminal: as new_window, with the subsystem's create_terminal_context;
\* the window is the grid times the cell size of the tileset.
new_terminal(l, columns, rows, kw, status) ==
    LET args == << columns, rows,
                   IF kw.renderer = "None" THEN RENDERER_SDL2 ELSE kw.renderer,
                   handle_tileset(kw.tileset), kw.vsync,
                   IF kw.sdl_window_flags = "None" THEN SDL_WINDOW_RESIZABLE
                                                   ELSE kw.sdl_window_flags,
                   handle_title(kw.title) >>
        called == [l EXCEPT !.create_args = args]
        cell == CellSize(handle_tileset(kw.tileset))
    IN  IF check_raises(status)
        THEN [err |-> ConstructionError, made |-> FALSE, called |-> TRUE, lib |-> called]
        ELSE [err |-> NoError, made |-> TRUE, called |-> TRUE,
              lib |-> [called EXCEPT !.handle = "live",
                                     !.window = <<columns * cell[1], rows * cell[2]>>,
                                     !.tileset = handle_tileset(kw.tileset)]]

-----------------------------------------------------------------------------
(* tcod.libtcod._PropagateException.  exc_info is None or the triple       *)
(* (type, value, traceback) given to propagate.                            *)

None == [type |-> "None", value |-> "None", traceback |-> "None"]
ExcInfos ==
    { [type |-> "KeyError", value |-> "k", traceback |-> "tb1"],
      [type |-> "ValueError", value |-> "v", traceback |-> "tb2"] }

\* propagate that keeps the last exception it is given.
propagate_keeps_last(m, exc_info) == [m EXCEPT !.exc_info = exc_info]

\* propagate: hold exc_info unless one is held already.
propagate(m, exc_info) ==
    IF m.exc_info = None THEN [m EXCEPT !.exc_info = exc_info] ELSE m

\* raise type(value) with __traceback__ = traceback: a new exception of the
\* type, constructed from the value.
Raised(e) == [type |-> e.type, args |-> <<e.value>>, traceback |-> e.traceback]
NothingRaised == [type |-> "None", args |-> <<>>, traceback |-> "None"]

\* __exit__(type, value, traceback): the held exception replaces the one in
\* flight and is forgotten; whichever is left is raised.
pm_exit(m, inflight) ==
    LET e == IF m.exc_info # None THEN m.exc_info ELSE inflight
    IN  [ m |-> [m EXCEPT !.exc_info = None],
          raised |-> IF e.type # "None" THEN Raised(e) ELSE NothingRaised ]

PmInit == [ exc_info |-> None, depth |-> 0, pc |-> "idle", calls |-> <<>>,
            seen |-> <<>>, inflight |-> None, raised |-> NothingRaised ]

\* `with manager as propagate:` is entered; __enter__ returns self.propagate.
PmEnter ==
    /\ pm.depth < MaxDepth
    /\ pm' = [pm EXCEPT !.depth = @ + 1, !.pc = "entered"]
    /\ UNCHANGED <<self, lib, result, scope, close_calls>>

\* The callback's onerror calls propagate; calls records the calls made
\* since the manager last exited.
PmPropagate ==
    /\ Len(pm.calls) < MaxPropagate
    /\ \E exc_info \in ExcInfos :
          pm' = [propagate(pm, exc_info) EXCEPT
                    !.calls = Append(pm.calls, exc_info), !.pc = "propagated"]
    /\ UNCHANGED <<self, lib, result, scope, close_calls>>

\* The with-statement is left, with or without an exception in flight.
PmExit ==
    /\ pm.depth > 0
    /\ \E inflight \in ExcInfos \cup {None} :
          LET r == pm_exit(pm, inflight)
          IN  pm' = [r.m EXCEPT !.depth = @ - 1, !.pc = "exited",
                                !.seen = pm.calls, !.calls = <<>>,
                                !.inflight = inflight, !.raised = r.raised]
    /\ UNCHANGED <<self, lib, result, scope, close_calls>>

-----------------------------------------------------------------------------
(* The state machine: one handle of the subsystem and the Context objects  *)
(* that hold its pointer.  Object 1 is the one a factory returns; object 2 *)
(* is a second Context constructed on the same pointer.                    *)

Objects == {1, 2}

NoObject == [made |-> FALSE, has_context_p |-> FALSE, dropped |-> FALSE]
SelfInit == [o \in Objects |-> NoObject]
ClosesInit == [o \in Objects |-> 0]

Result(o, op, args, r, ev) ==
    [ obj |-> o, op |-> op, args |-> args, err |-> r.err, val |-> r.val,
      ev |-> ev, called |-> r.called, after_close |-> close_calls[o] > 0 ]

NoResult == [ obj |-> 0, op |-> "none", args |-> <<>>, err |-> NoError,
              val |-> <<>>, ev |-> NoEvent, called |-> FALSE,
              after_close |-> FALSE ]

ScopeInit == [ pc |-> "outside", exit_err |-> NoError ]
\* The object can be used: it exists, is referenced, and no error is
\* unwinding through a with-statement.
Usable(o) == self[o].made /\ ~self[o].dropped /\ scope.pc # "unwinding"

\* What a call can come to.  A call made with a released handle has no
\* defined outcome: the subsystem may answer with an error, which the
\* wrapper raises as e, or with anything else, which the wrapper returns.
Outcomes(r, e) ==
    IF r.err = DanglingHandle
    THEN {[r EXCEPT !.err = e], [r EXCEPT !.err = NoError]}
    ELSE {r}

Closes == close_calls[1] + close_calls[2]

NewWindow ==
    /\ ~self[1].made
    /\ \E width \in Widths, height \in Heights :
       \E status \in lib_new_window_statuses(width, height) :
          LET r == new_window(lib, width, height, DefaultKeywords, status)
          IN  /\ lib' = r.lib
              /\ self' = [self EXCEPT ![1].made = r.made,
                                      ![1].has_context_p = r.made]
              /\ result' = Result(1, "new_window", <<width, height>>,
                                  [err |-> r.err, called |-> r.called,
                                   val |-> <<status, IF r.called THEN 1 ELSE 0>>],
                                  NoEvent)
    /\ UNCHANGED <<scope, close_calls, pm>>

NewTerminal ==
    /\ ~self[1].made
    /\ \E columns \in Columns, rows \in Rows :
       \E status \in lib_new_terminal_statuses(columns, rows) :
          LET r == new_terminal(lib, columns, rows, DefaultKeywords, status)
          IN  /\ lib' = r.lib
              /\ self' = [self EXCEPT ![1].made = r.made,
                                      ![1].has_context_p = r.made]
              /\ result' = Result(1, "new_terminal", <<columns, rows>>,
                                  [err |-> r.err, called |-> r.called,
                                   val |-> <<status, IF r.called THEN 1 ELSE 0>>],
                                  NoEvent)
    /\ UNCHANGED <<scope, close_calls, pm>>

\* Context(context_p) with the pointer another Context holds.
Alias ==
    /\ Usable(1)
    /\ self[1].has_context_p
    /\ ~self[2].made
    /\ self' = [self EXCEPT ![2].made = TRUE, ![2].has_context_p = TRUE]
    /\ result' = Result(2, "__init__", <<>>, Ret(<<>>), NoEvent)
    /\ UNCHANGED <<lib, scope, close_calls, pm>>

Close ==
    /\ Closes < MaxClose
    /\ \E o \in Objects :
          /\ Usable(o)
          /\ LET r == close(self[o], lib)
             IN  /\ self' = [self EXCEPT ![o] = r.self]
                 /\ lib' = r.lib
                 /\ result' = Result(o, "close", <<>>,
                                     [err |-> r.err, val |-> <<>>, called |-> FALSE],
                                     NoEvent)
          /\ close_calls' = [close_calls EXCEPT ![o] = @ + 1]
    /\ UNCHANGED <<scope, pm>>

\* `with context:` on the Context a factory returned.
Enter ==
    /\ scope.pc = "outside"
    /\ Usable(1)
    /\ scope' = [scope EXCEPT !.pc = "body"]
    /\ result' = Result(1, "__enter__", <<>>, Ret(<<>>), NoEvent)
    /\ UNCHANGED <<self, lib, close_calls, pm>>

\* An error escapes the body of the with-statement.
BodyRaises ==
    /\ scope.pc = "body"
    /\ scope' = [scope EXCEPT !.pc = "unwinding"]
    /\ UNCHANGED <<self, lib, result, close_calls, pm>>

Exit ==
    /\ scope.pc \in {"body", "unwinding"}
    /\ Closes < MaxClose
    /\ LET r == exit(self[1], lib, scope.pc = "unwinding")
       IN  /\ self' = [self EXCEPT ![1] = r.self]
           /\ lib' = r.lib
           /\ result' = Result(1, "__exit__", <<scope.pc = "unwinding">>,
                               [err |-> r.err, val |-> <<>>, called |-> FALSE],
                               NoEvent)
           /\ scope' = [scope EXCEPT !.pc = "left", !.exit_err = r.err]
           /\ close_calls' = [close_calls EXCEPT ![1] = @ + 1]
    /\ UNCHANGED pm

\* The last reference to the pointer is dropped: the finalizer of ffi.gc runs.
Collect ==
    /\ Usable(1)
    /\ scope.pc # "body"
    /\ self' = [o \in Objects |->
                  [self[o] EXCEPT !.dropped = TRUE, !.has_context_p = FALSE]]
    /\ lib' = ffi_release(lib)
    /\ result' = Result(1, "finalizer", <<>>, Ret(<<>>), NoEvent)
    /\ UNCHANGED <<scope, close_calls, pm>>

Statuses == {-1, 0}      \* a subsystem call fails or succeeds

PresentKeywords ==
    [ keep_aspect : BOOLEAN, integer_scaling : BOOLEAN,
      clear_color : ClearColors, align : Aligns ]

Present ==
    \E o \in Objects, console \in Consoles, kw \in PresentKeywords,
       status \in Statuses :
       LET r == present(self[o], lib, console, kw, status)
       IN  /\ Usable(o)
           /\ lib' = IF r.err = NoError
                     THEN [r.lib EXCEPT !.presents = IF @ = 0 THEN 1 ELSE 2]
                     ELSE lib
           /\ \E rr \in Outcomes(r, PresentationError) :
                 result' = Result(o, "present", console, rr, NoEvent)
           /\ UNCHANGED <<self, scope, close_calls, pm>>

PixelToTile ==
    \E o \in Objects, p \in Pixels :
       LET r == pixel_to_tile(self[o], lib, p[1], p[2])
       IN  /\ Usable(o)
           /\ \E rr \in Outcomes(r, ConversionError) :
                 result' = Result(o, "pixel_to_tile", p, rr, NoEvent)
           /\ UNCHANGED <<self, lib, scope, close_calls, pm>>

PixelToSubtile ==
    \E o \in Objects, p \in Pixels :
       LET r == pixel_to_subtile(self[o], lib, p[1], p[2])
       IN  /\ Usable(o)
           /\ \E rr \in Outcomes(r, ConversionError) :
                 result' = Result(o, "pixel_to_subtile", p, rr, NoEvent)
           /\ UNCHANGED <<self, lib, scope, close_calls, pm>>

ConvertEvent ==
    \E o \in Objects, event \in Events :
       LET r == convert_event(self[o], lib, event)
       IN  /\ Usable(o)
           /\ \E rr \in Outcomes(r, ConversionError) :
                 result' = Result(o, "convert_event", event,
                                  [err |-> rr.err, val |-> <<>>, called |-> rr.called],
                                  rr.ev)
           /\ UNCHANGED <<self, lib, scope, close_calls, pm>>

SaveScreenshot ==
    \E o \in Objects, path \in Paths, status \in Statuses :
       LET r == save_screenshot(self[o], lib, path, status)
       IN  /\ Usable(o)
           /\ \E rr \in Outcomes(r, IOError) :
                 result' = Result(o, "save_screenshot", <<>>, rr, NoEvent)
           /\ UNCHANGED <<self, lib, scope, close_calls, pm>>

ChangeTileset ==
    \E o \in Objects, tileset \in Tilesets, status \in Statuses :
       LET r == change_tileset(self[o], lib, tileset, status)
       IN  /\ Usable(o)
           /\ lib' = IF r.err = NoError THEN r.lib ELSE lib
           /\ \E rr \in Outcomes(r, SubsystemError) :
                 result' = Result(o, "change_tileset", <<>>, rr, NoEvent)
           /\ UNCHANGED <<self, scope, close_calls, pm>>

RecommendedConsoleSize ==
    \E o \in Objects, min_columns \in Minimums, min_rows \in Minimums,
       status \in Statuses :
       LET r == recommended_console_size(self[o], lib, min_columns, min_rows, status)
       IN  /\ Usable(o)
           /\ \E rr \in Outcomes(r, SubsystemError) :
                 result' = Result(o, "recommended_console_size",
                                  <<min_columns, min_rows>>, rr, NoEvent)
           /\ UNCHANGED <<self, lib, scope, close_calls, pm>>

RendererType ==
    \E o \in Objects, answer \in RendererAnswers :
       LET r == renderer_type(self[o], lib, answer)
       IN  /\ Usable(o)
           /\ \E rr \in Outcomes(r, SubsystemError) :
                 result' = Result(o, "renderer_type", <<answer>>, rr, NoEvent)
           /\ UNCHANGED <<self, lib, scope, close_calls, pm>>

SdlWindowP ==
    \E o \in Objects, p \in WindowAnswers :
       LET r == sdl_window_p(self[o], lib, p)
       IN  /\ Usable(o)
           /\ \E rr \in Outcomes(r, SurfaceTypeError) :
                 result' = Result(o, "sdl_window_p", <<>>, rr, NoEvent)
           /\ UNCHANGED <<self, lib, scope, close_calls, pm>>

Init ==
    /\ self = SelfInit
    /\ lib = LibInit
    /\ result = NoResult
    /\ scope = ScopeInit
    /\ close_calls = ClosesInit
    /\ pm = PmInit

Next ==
    \/ NewWindow
    \/ NewTerminal
    \/ Alias
    \/ Close
    \/ Enter
    \/ BodyRaises
    \/ Exit
    \/ Collect
    \/ Present
    \/ PixelToTile
    \/ PixelToSubtile
    \/ ConvertEvent
    \/ SaveScreenshot
    \/ ChangeTileset
    \/ RecommendedConsoleSize
    \/ RendererType
    \/ SdlWindowP

Spec == Init /\ [][Next]_vars

NextPM == PmEnter \/ PmPropagate \/ PmExit

SpecPM == Init /\ [][NextPM]_vars


-----------------------------------------------------------------------------
(* Properties.                                                             *)

OtherOps ==
    { "present", "pixel_to_tile", "pixel_to_subtile", "convert_event",
      "save_screenshot", "change_tileset", "recommended_console_size",
      "renderer_type", "sdl_window_p" }

\* C1: once close has been called on a Context, every operation on it other
\* than close fails with UseAfterCloseError, and the call never reaches the
\* subsystem: the released handle is not passed to it.
C1_UseAfterClose ==
    (result.op \in OtherOps /\ result.after_close) =>
        /\ result.err = UseAfterCloseError
        /\ ~result.called
        /\ lib.handle = "released"

C1_Witness ==
    /\ result.op = "present"
    /\ result.obj = 1
    /\ result.after_close
    /\ result.err = UseAfterCloseError
    /\ ~result.called
    /\ lib.create_args[1] = 27

\* C2: every call of close (or __exit__) on a Context returns without
\* raising; the second and every later one on the same Context changes
\* nothing; the subsystem's context_delete runs at most once for the handle,
\* on the first close that finds it live, and has run once any close returned.
C2_CloseIdempotent ==
    [][ /\ lib'.delete_calls <= 1
        /\ \A o \in Objects :
              (close_calls'[o] = close_calls[o] + 1) =>
                 /\ result'.err = NoError
                 /\ lib'.delete_calls = 1
                 /\ lib.handle = "live" => lib.delete_calls = 0
                 /\ close_calls[o] >= 1 => (self' = self /\ lib' = lib) ]_vars

C2_Witness ==
    /\ result.op = "close"
    /\ result.obj = 1
    /\ close_calls[1] = 2
    /\ lib.delete_calls = 1
    /\ result.err = NoError

\* C3: once a with-statement on the Context has been left (normally, by an
\* error of the body, or after the body closed the Context itself) the
\* Context is closed, and __exit__ raised nothing of its own.
C3_ScopedClose ==
    scope.pc = "left" =>
        /\ ~self[1].has_context_p
        /\ lib.handle = "released"
        /\ lib.delete_calls = 1
        /\ scope.exit_err = NoError

C3_Witness ==
    /\ scope.pc = "left"
    /\ result.op = "__exit__"
    /\ result.args = <<TRUE>>
    /\ close_calls[1] = 2

\* C4: recommended_console_size on a live handle returns (max(min_columns,
\* c), max(min_rows, r)) for the size (c, r) the subsystem reports.
C4_FlooredAtMinimums ==
    (result.op = "recommended_console_size" /\ result.err = NoError
       /\ lib.handle = "live") =>
        result.val = << Max(result.args[1], lib_recommended_console_size(lib)[1]),
                        Max(result.args[2], lib_recommended_console_size(lib)[2]) >>

\* The difference of two tiles.
TileDiff(a, b) == <<a[1] - b[1], a[2] - b[2]>>

\* C5: convert_event sets tile to the tile of the pixel and, for a motion
\* event, tile_motion to that tile minus the tile of (pixel - pixel_motion),
\* both under the current transform of the live handle; a position event
\* gets only its tile.
C5_ConvertEvent ==
    (result.op = "convert_event" /\ result.err = NoError
       /\ lib.handle = "live") =>
        LET event == result.args
            tile == tile_of(lib.transform, event.pixel[1], event.pixel[2])
            prev == tile_of(lib.transform,
                            event.pixel[1] - event.pixel_motion[1],
                            event.pixel[2] - event.pixel_motion[2])
        IN  IF event.type = "MouseMotion"
            THEN result.ev = [event EXCEPT !.tile = tile,
                                           !.tile_motion = TileDiff(tile, prev)]
            ELSE result.ev = [event EXCEPT !.tile = tile]

C5_Witness ==
    /\ result.op = "convert_event"
    /\ result.err = NoError
    /\ result.ev.type = "MouseMotion"
    /\ result.ev.tile_motion # <<0, 0>>
    /\ result.ev.tile_motion # result.ev.tile
    /\ lib.handle = "live"
    /\ lib.presents = 2

\* C7 as claimed: new_window with width <= 0 or height <= 0 fails with
\* ConstructionError before the subsystem is called, and makes no Context.
C7_ValidatesSize ==
    (result.op = "new_window" /\ (result.args[1] <= 0 \/ result.args[2] <= 0)) =>
        /\ result.err = ConstructionError
        /\ result.val[2] = 0
        /\ ~self[1].made

\* C7 amended: new_window validates nothing itself: every call reaches the
\* subsystem's create_window_context with width and height unchanged, and it
\* fails with ConstructionError, making no Context, exactly when the
\* subsystem reports a negative status.
C7_SubsystemDecides ==
    result.op = "new_window" =>
        /\ result.val[2] = 1
        /\ Len(lib.create_args) = 7
        /\ <<lib.create_args[1], lib.create_args[2]>> = result.args
        /\ (result.err = ConstructionError) = (result.val[1] < 0)
        /\ (result.err = NoError) = (result.val[1] >= 0)
        /\ self[1].made = (result.val[1] >= 0)
        /\ self[1].made => (self[1].has_context_p /\ lib.handle = "live")
        /\ ~self[1].made => lib.handle = "none"

C7_Witness ==
    /\ result.op = "new_window"
    /\ result.args[1] <= 0
    /\ result.val[2] = 1
    /\ result.err = ConstructionError
    /\ ~self[1].made

\* C10: when the manager exits it raises the exception of the first
\* propagate call made since it last exited, whatever was then in flight;
\* without such a call it raises what was in flight, if anything; and it
\* holds no exception afterwards.
C10_FirstExceptionWins ==
    pm.pc = "exited" =>
        /\ pm.exc_info = None
        /\ pm.raised = IF pm.seen # <<>> THEN Raised(pm.seen[1])
                       ELSE IF pm.inflight # None THEN Raised(pm.inflight)
                       ELSE NothingRaised

C10_Witness ==
    /\ pm.pc = "exited"
    /\ Len(pm.seen) >= 2
    /\ pm.seen[2] # pm.seen[1]
    /\ pm.inflight # None
    /\ pm.inflight # pm.seen[1]
    /\ pm.raised = Raised(pm.seen[1])

=============================================================================
